---- MODULE Spec2Model ----
(***************************************************************************)
(* A model of the Azure DevOps wiki client (azure_devops_wiki_tool.py)     *)
(* and of the two Flask front ends (app_server.py, app.py).                *)
(*                                                                         *)
(* One invocation of an operation runs from a blocking network call to    *)
(* the next: an Invoke action runs the handler up to its first upstream    *)
(* request (or to its return, when local validation rejects the call),    *)
(* Deliver hands the response of the request in flight to the handler and *)
(* runs it up to its next request or its return, Return gives the slot    *)
(* back.  The upstream service and the transport are data: `upstream`     *)
(* decides the response to every request.                                 *)
(***************************************************************************)
EXTENDS Integers, Sequences, FiniteSets, TLC

VARIABLES
    upstream,   \* the upstream wiki service and the transport in front of it
    client,     \* the AzureDevOpsWikiTool instance: credential, headers, base URL
    calls,      \* one record per caller: the invocation it is running
    last        \* the last completed search and whether upstream changed since

vars == <<upstream, client, calls, last>>

----------------------------------------------------------------------------
(* Bounds of the model. *)

MaxPages == 2

(* Program constants. *)

SnippetLen == 250

----------------------------------------------------------------------------
(* Python's Optional: None is the empty tuple, a present value x is <<x>>. *)

None == <<>>

Some(x) == <<x>>

(* Truthiness of an optional string (None and "" are falsy). *)
TruthyStr(o) == o # None /\ o[1] # ""

(* Truthiness of an optional integer (None and 0 are falsy). *)
TruthyInt(o) == o # None /\ o[1] # 0

(* Truthiness of an optional text, a tuple of characters (None and the empty text are falsy). *)
TruthyText(o) == o # None /\ o[1] # <<>>

Min(a, b) == IF a <= b THEN a ELSE b

----------------------------------------------------------------------------
(* Text: a tuple of one-character strings. *)

LowerChar(ch) ==
    CASE ch = "A" -> "a"
      [] ch = "B" -> "b"
      [] ch = "X" -> "x"
      [] OTHER -> ch

(* str.lower() *)
Lower(s) == [i \in 1..Len(s) |-> LowerChar(s[i])]

(* Python's `sub in s` on strings. *)
Contains(sub, s) ==
    \E i \in 0..(Len(s) - Len(sub)) : SubSeq(s, i + 1, i + Len(sub)) = sub

(* content[:250] *)
(* The decimal digits, by value + 1. *)
Digits == <<"0", "1", "2", "3", "4", "5", "6", "7", "8", "9">>

RECURSIVE FormatInt(_)
(* str(n) of a natural number, as it stands in a URL. *)
FormatInt(n) == IF n < 10 THEN <<Digits[n + 1]>> ELSE Append(FormatInt(n \div 10), Digits[(n % 10) + 1])

DigitValue(ch) == (CHOOSE d \in 1..10 : Digits[d] = ch) - 1

RECURSIVE ParseDigits(_, _, _)
ParseDigits(s, i, acc) == IF i > Len(s) THEN acc ELSE ParseDigits(s, i + 1, 10 * acc + DigitValue(s[i]))

(* int(s) of a text: the number a text of digits denotes, none (ValueError) *)
(* for an empty text or one with another character.                        *)
ParseInt(s) ==
    IF s = <<>> \/ \E i \in 1..Len(s) : \A d \in 1..10 : Digits[d] # s[i]
    THEN None
    ELSE Some(ParseDigits(s, 1, 0))

Snippet(content) == SubSeq(content, 1, Min(SnippetLen, Len(content)))

----------------------------------------------------------------------------
(* The upstream service and the transport.                                 *)
(*                                                                         *)
(* A mode says what the transport gives back for one resource: whether the *)
(* exchange completes at all (net), the HTTP status, whether the body is   *)
(* JSON, and whether the JSON object holds the key the client reads        *)
(* ("value" of a collection, "content" of a page).                         *)

ModeOk == [net |-> TRUE, status |-> 200, json |-> TRUE, key |-> TRUE]

ModeNoKey == [net |-> TRUE, status |-> 200, json |-> TRUE, key |-> FALSE]

ModeNotFound == [net |-> TRUE, status |-> 404, json |-> TRUE, key |-> FALSE]

ModeServerError == [net |-> TRUE, status |-> 500, json |-> FALSE, key |-> FALSE]

ModeNonJson == [net |-> TRUE, status |-> 203, json |-> FALSE, key |-> FALSE]

ModeTransport == [net |-> FALSE, status |-> 0, json |-> FALSE, key |-> FALSE]

PageModes == {ModeOk, ModeNoKey, ModeNotFound, ModeNonJson, ModeTransport}

ListModes == {ModeOk, ModeNoKey, ModeNotFound, ModeServerError, ModeNonJson, ModeTransport}

WikiName == "TeamWiki"

(* The path of the page listed at position k. *)
PathName == <<"/Home", "/Arch", "/Ops", "/Faq">>

(* A text longer than a snippet whose only match of the queries lies beyond the snippet. *)
LongText == [i \in 1..(SnippetLen + 2) |-> IF i = SnippetLen + 1 THEN "A" ELSE IF i = SnippetLen + 2 THEN "b" ELSE "x"]

Contents == {<<"x", "A", "b">>, <<"b", "a">>, LongText}

Queries == {<<"a", "B">>, <<"X">>}

(* What the upstream may hold at position k of a wiki's page listing: an entry *)
(* without a path, one with an empty path, or a page with a path, a content,   *)
(* the mode in which it is served and the number of its version.               *)
PageStates(k) ==
    {[path |-> None, mode |-> ModeOk, content |-> <<>>, version |-> 1],
     [path |-> Some(""), mode |-> ModeOk, content |-> <<>>, version |-> 1]}
    \cup {[path |-> Some(PathName[k]), mode |-> ModeOk, content |-> t, version |-> 1] : t \in Contents}
    \cup {[path |-> Some(PathName[k]), mode |-> m, content |-> <<>>, version |-> 1] : m \in PageModes \ {ModeOk}}

Listings == UNION {{f \in [1..n -> UNION {PageStates(k) : k \in 1..n}] :
                        \A k \in 1..n : f[k] \in PageStates(k)} : n \in 0..MaxPages}

(* The page entry the listing carries for position k. *)
PageRef(k, page) == [path |-> page.path, id |-> k]

PageRefs(pages) == [k \in 1..Len(pages) |-> PageRef(k, pages[k])]

(* Positions of the pages stored under `path`. *)
PagesAt(path) == {k \in 1..Len(upstream.pages) : upstream.pages[k].path = Some(path)}

FirstOf(S) == CHOOSE k \in S : \A j \in S : k <= j

EmptyBody == [content |-> None, value |-> None]

Response(mode, body) ==
    [net |-> mode.net, status |-> mode.status, json |-> mode.json,
     body |-> IF mode.net /\ mode.json /\ mode.key THEN body ELSE EmptyBody]

PageResponse(S) ==
    IF S = {} THEN Response(ModeNotFound, EmptyBody)
    ELSE LET page == upstream.pages[FirstOf(S)]
         IN Response(page.mode, [content |-> Some(page.content), value |-> None])

ModePrecondition == [net |-> TRUE, status |-> 412, json |-> TRUE, key |-> FALSE]

(* The ETag of each version of a page, by the version's number. *)
ETagName == <<"v1", "v2", "v3">>

(* The version tag of a stored page. *)
ETagOf(page) == ETagName[page.version]

WikiExists(wiki) == \E i \in 1..Len(upstream.wikis) : upstream.wikis[i].name = wiki

(* The mode in which a page that did not exist is created: the wiki's own, *)
(* with 201 for 200.                                                        *)
CreatedMode(mode) == IF mode.status = 200 THEN [mode EXCEPT !.status = 201] ELSE mode

(* The response to the upsert `req` (PUT pages?path=..). *)
PutResponse(req) ==
    LET S == PagesAt(req.query.path[1])
        body == [content |-> req.json, value |-> None]
    IN IF ~WikiExists(req.wiki) THEN Response(ModeNotFound, EmptyBody)
       ELSE IF req.headers.IfMatch # None
                 /\ (S = {} \/ \A k \in S : ETagOf(upstream.pages[k]) # req.headers.IfMatch[1])
       THEN Response(ModePrecondition, EmptyBody)
       ELSE IF S = {} THEN Response(CreatedMode(upstream.listMode), body)
       ELSE Response(upstream.pages[FirstOf(S)].mode, body)

(* The upstream state after the upsert `req`: a success status stores the *)
(* content as the page's next version.                                    *)
AfterPut(req) ==
    LET resp == PutResponse(req)
        S == PagesAt(req.query.path[1])
    IN IF ~resp.net \/ resp.status \notin {200, 201} THEN upstream
       ELSE IF S = {}
       THEN [upstream EXCEPT !.pages = Append(@, [path |-> req.query.path, mode |-> ModeOk,
                                                   content |-> req.json[1], version |-> 1])]
       ELSE [upstream EXCEPT !.pages[FirstOf(S)].content = req.json[1],
                             !.pages[FirstOf(S)].version = @ + 1]

(* What the transport returns for request `req` in the current upstream state. *)
Transport(req) ==
    CASE req.method = "PUT" -> PutResponse(req)
      [] req.resource = "wikis" ->
            Response(upstream.listMode, [content |-> None, value |-> Some(upstream.wikis)])
      [] req.resource = "pages" /\ req.query.path = None ->
            IF ~WikiExists(req.wiki)
            THEN Response(ModeNotFound, EmptyBody)
            ELSE Response(upstream.listMode, [content |-> None, value |-> Some(PageRefs(upstream.pages))])
      [] req.resource = "pages" /\ req.query.path # None ->
            PageResponse(PagesAt(req.query.path[1]))
      [] OTHER ->
            PageResponse({k \in 1..Len(upstream.pages) : req.pageId = Some(FormatInt(k))})

----------------------------------------------------------------------------
(* The client: AzureDevOpsWikiTool.                                        *)

ApiVersion == "7.1-preview.2"

NoHeaders == [Authorization |-> None, IfMatch |-> None, ContentType |-> None]

NoQuery ==
    [path |-> None, includeContent |-> None, recursionLevel |-> None, apiVersion |-> None,
     comment |-> None]

(* __init__: the Basic-auth header built from the access token, and the base URL. *)
NewClient ==
    [org |-> "org", project |-> "proj", pat |-> "pat", api_version |-> ApiVersion,
     headers |-> [NoHeaders EXCEPT !.Authorization = Some("Basic :pat")],
     base_url |-> "https://dev.azure.com/org/proj/_apis/wiki"]

(* {**self._headers, **headers}: the caller's headers win over the instance's. *)
MergeHeaders(own, given) == [h \in DOMAIN own |-> IF given[h] # None THEN given[h] ELSE own[h]]

(* The request _request hands to requests.request. *)
BuildRequest(method, resource, wiki, pageId, query, headers) ==
    [method |-> method, base |-> client.base_url, resource |-> resource, wiki |-> wiki,
     pageId |-> pageId, query |-> query, headers |-> MergeHeaders(client.headers, headers),
     json |-> None, jsonComment |-> None]

(* Outcomes of an operation: a returned value, or a raised exception with its *)
(* class, the HTTP status it carries and its str().                           *)
NoOutcome == [kind |-> "none", status |-> 0, text |-> "", value |-> <<>>]

Ok(v) == [kind |-> "ok", status |-> 0, text |-> "", value |-> v]

Raise(kind, status, text) == [kind |-> kind, status |-> status, text |-> text, value |-> <<>>]

(* A Flask reply: the JSON body and the HTTP status. *)
Reply(status, v) == [kind |-> "reply", status |-> status, text |-> "", value |-> v]

(* requests raises when the exchange does not complete. *)
TransportError == Raise("ConnectionError", 0, "Connection aborted")

(* The HTTPError of raise_for_status. *)
HTTPError(status) == Raise("HTTPError", status, IF status < 500 THEN "Client Error" ELSE "Server Error")

(* _request's ValueError for a body that is not JSON. *)
DecodeError == Raise("ValueError", 0, "Expected JSON response, but could not decode it")

(* get_page_content's ValueError for its selectors. *)
InvalidArgument ==
    Raise("ValueError", 0, "Exactly one of page_path or page_id must be supplied to get_page_content")

(* str(exc) *)
ErrorText(exc) == exc.text

(* The mutant of RaisesForStatus: only server errors raise. *)
RaisesForStatus_server(status) == status >= 500 /\ status < 600

(* response.raise_for_status(): raises for the 4xx and 5xx statuses. *)
RaisesForStatus(status) == status >= 400 /\ status < 600

(* The mutant of RequestResult: an aborted exchange is taken for an empty answer. *)
RequestResult_swallow(resp) ==
    IF ~resp.net THEN Ok(EmptyBody)
    ELSE IF resp.status >= 400 THEN HTTPError(resp.status)
    ELSE IF ~resp.json THEN DecodeError
    ELSE Ok(resp.body)

(* _request, from the response on: the decoded body, or the exception raised. *)
RequestResult(resp) ==
    IF ~resp.net THEN TransportError
    ELSE IF RaisesForStatus(resp.status) THEN HTTPError(resp.status)
    ELSE IF ~resp.json THEN DecodeError
    ELSE Ok(resp.body)

(* list_pages: the request. *)
ListPagesRequest(wiki) ==
    BuildRequest("GET", "pages", wiki, None, [NoQuery EXCEPT !.apiVersion = Some(client.api_version)], NoHeaders)

(* The mutant of ListPagesResult: a failed listing is taken for an empty one. *)
ListPagesResult_empty(resp) ==
    LET data == RequestResult(resp)
    IN IF data.kind # "ok" THEN Ok(<<>>)
       ELSE Ok(IF data.value.value = None THEN <<>> ELSE data.value.value[1])

(* list_pages, from the response on: data.get("value", []). *)
ListPagesResult(resp) ==
    LET data == RequestResult(resp)
    IN IF data.kind # "ok" THEN data
       ELSE Ok(IF data.value.value = None THEN <<>> ELSE data.value.value[1])

(* list_wikis: the request. *)
ListWikisRequest ==
    BuildRequest("GET", "wikis", "", None, [NoQuery EXCEPT !.apiVersion = Some(client.api_version)], NoHeaders)

(* The mutant of ListWikisResult: data["value"], a KeyError without the key. *)
ListWikisResult_strict(resp) ==
    LET data == RequestResult(resp)
    IN IF data.kind # "ok" THEN data
       ELSE IF data.value.value = None THEN Raise("KeyError", 0, "'value'")
       ELSE Ok(data.value.value[1])

(* list_wikis, from the response on: data.get("value", []). *)
ListWikisResult(resp) ==
    LET data == RequestResult(resp)
    IN IF data.kind # "ok" THEN data
       ELSE Ok(IF data.value.value = None THEN <<>> ELSE data.value.value[1])

(* The mutant of HeadersAfterUpsert: If-Match is set on the instance's own headers. *)
HeadersAfterUpsert_alias(own, etag) == [own EXCEPT !.IfMatch = IF TruthyStr(etag) THEN etag ELSE @]

(* create_or_update_page: the instance's headers once the request's headers are *)
(* built; dict(self._headers) is a copy, so If-Match goes into the copy only.   *)
HeadersAfterUpsert(own, etag) == own

(* The mutant of CreateOrUpdateRequest: the etag is dropped. *)
CreateOrUpdateRequest_unconditional(wiki, path, content, comment, etag) ==
    [method |-> "PUT", base |-> client.base_url, resource |-> "pages", wiki |-> wiki, pageId |-> None,
     query |-> [NoQuery EXCEPT !.apiVersion = Some(client.api_version), !.path = Some(path),
                               !.comment = IF TruthyStr(comment) THEN comment ELSE None],
     headers |-> client.headers,
     json |-> Some(content), jsonComment |-> None]

(* create_or_update_page: the PUT request, with If-Match when an etag is given. *)
CreateOrUpdateRequest(wiki, path, content, comment, etag) ==
    [method |-> "PUT", base |-> client.base_url, resource |-> "pages", wiki |-> wiki, pageId |-> None,
     query |-> [NoQuery EXCEPT !.apiVersion = Some(client.api_version), !.path = Some(path),
                               !.comment = IF TruthyStr(comment) THEN comment ELSE None],
     headers |-> [client.headers EXCEPT !.IfMatch = IF TruthyStr(etag) THEN etag ELSE None],
     json |-> Some(content), jsonComment |-> None]

(* create_or_update_page, from the response on: raise_for_status(), then response.json(). *)
CreateOrUpdateResult(resp) ==
    IF ~resp.net THEN TransportError
    ELSE IF RaisesForStatus(resp.status) THEN HTTPError(resp.status)
    ELSE IF ~resp.json THEN Raise("JSONDecodeError", 0, "Expecting value")
    ELSE Ok(resp.body)

(* app.py, GET /pages: the request, with recursionLevel=full. *)
PagesRouteRequest(wiki) ==
    [method |-> "GET", base |-> "https://dev.azure.com/org/proj/_apis/wiki", resource |-> "pages",
     wiki |-> wiki, pageId |-> None,
     query |-> [NoQuery EXCEPT !.apiVersion = Some("7.1-preview.1"), !.recursionLevel = Some("full")],
     headers |-> [NoHeaders EXCEPT !.Authorization = Some("Basic :pat"),
                                   !.ContentType = Some("application/json")],
     json |-> None, jsonComment |-> None]

(* app.py, GET /pages, from the response on: any status but 200 is relayed as *)
(* an error, a 200 relays resp.json().                                         *)
PagesRouteResult(resp) ==
    IF ~resp.net THEN TransportError
    ELSE IF resp.status # 200 THEN Reply(resp.status, <<>>)
    ELSE IF ~resp.json THEN Raise("JSONDecodeError", 0, "Expecting value")
    ELSE Reply(200, resp.body)

(* app.py, POST and PUT /page: the PUT request both send, with the method's *)
(* default comment in the payload.                                          *)
PageUpsertRequest(wiki, path, content, comment) ==
    [method |-> "PUT", base |-> "https://dev.azure.com/org/proj/_apis/wiki", resource |-> "pages",
     wiki |-> wiki, pageId |-> None,
     query |-> [NoQuery EXCEPT !.apiVersion = Some("7.1-preview.1"), !.path = Some(path)],
     headers |-> [NoHeaders EXCEPT !.Authorization = Some("Basic :pat"),
                                   !.ContentType = Some("application/json")],
     json |-> Some(content), jsonComment |-> Some(comment)]

(* app.py, POST /page, from the response on: any status but 200 and 201 is *)
(* relayed as an error, else the reply is "Page created" with 201.         *)
PagePostResult(resp) ==
    IF ~resp.net THEN TransportError
    ELSE IF resp.status \notin {200, 201} THEN Reply(resp.status, <<>>)
    ELSE Reply(201, "Page created")

(* app.py, PUT /page, from the response on: any status but 200 and 201 is *)
(* relayed as an error, else the reply is "Page updated" with 200.        *)
PagePutResult(resp) ==
    IF ~resp.net THEN TransportError
    ELSE IF resp.status \notin {200, 201} THEN Reply(resp.status, <<>>)
    ELSE Reply(200, "Page updated")

(* app.py, GET /page: the request, by id when an id is given, else by path. *)
PageGetRequest(wiki, path, page_id) ==
    [method |-> "GET", base |-> "https://dev.azure.com/org/proj/_apis/wiki",
     resource |-> IF TruthyText(page_id) THEN "page" ELSE "pages",
     wiki |-> wiki, pageId |-> IF TruthyText(page_id) THEN page_id ELSE None,
     query |-> [NoQuery EXCEPT !.apiVersion = Some("7.1-preview.1"),
                               !.path = IF TruthyText(page_id) THEN None ELSE path],
     headers |-> [NoHeaders EXCEPT !.Authorization = Some("Basic :pat"),
                                   !.ContentType = Some("application/json")],
     json |-> None, jsonComment |-> None]

(* app.py, GET /page, from the response on: any status but 200 is relayed as *)
(* an error, a 200 relays resp.json().get("content", "").                    *)
PageGetResult(resp) ==
    IF ~resp.net THEN TransportError
    ELSE IF resp.status # 200 THEN Reply(resp.status, <<>>)
    ELSE IF ~resp.json THEN Raise("JSONDecodeError", 0, "Expecting value")
    ELSE Reply(200, IF resp.body.content = None THEN Some(<<>>) ELSE resp.body.content)

(* get_page_content: the exactly-one-of check on the selectors. *)
GetPageContentRejects(page_path, page_id) ==
    (page_path = None /\ page_id = None) \/ (TruthyStr(page_path) /\ TruthyInt(page_id))

(* get_page_content: the request (by path when a path is given, else by id). *)
GetPageContentRequest(wiki, page_path, page_id) ==
    LET params == [NoQuery EXCEPT !.includeContent = Some("true"), !.apiVersion = Some(client.api_version)]
    IN IF page_path # None
       THEN BuildRequest("GET", "pages", wiki, None, [params EXCEPT !.path = page_path], NoHeaders)
       ELSE BuildRequest("GET", "page", wiki, Some(FormatInt(page_id[1])), params, NoHeaders)

(* get_page_content, from the response on: data.get("content"). *)
GetPageContentResult(resp) ==
    LET data == RequestResult(resp)
    IN IF data.kind # "ok" THEN data ELSE Ok(data.value.content)

(* app_server.py, GET /page, from the response on: jsonify of what *)
(* get_page_content returns; what it raises is not caught.         *)
GetPageRouteResult(resp) ==
    LET out == GetPageContentResult(resp)
    IN IF out.kind = "ok" THEN Reply(200, out.value) ELSE out

----------------------------------------------------------------------------
(* The aggregator: crawl_wiki, search_keyword and the /search route.       *)

(* crawl_wiki's entry of a fetched page. *)
ContentEntry(path, content) == [path |-> path, content |-> content, error |-> None]

(* crawl_wiki's entry of a page whose fetch raised. *)
ErrorEntry(path, exc) == [path |-> path, content |-> None, error |-> Some(ErrorText(exc))]

(* crawl_wiki: the entry appended for the outcome of one get_page_content call. *)
CrawlEntry(path, out) ==
    IF out.kind = "ok" THEN ContentEntry(path, out.value) ELSE ErrorEntry(path, out)

(* The mutant of CrawlResultsInit: the results list outlives the call. *)
CrawlResultsInit_shared == IF last = None THEN <<>> ELSE last[1].results

(* crawl_wiki: the results list before the loop. *)
CrawlResultsInit == <<>>

(* The mutant of Skips: only an absent path is skipped, not an empty one. *)
Skips_absent(path) == path = None

(* crawl_wiki: `if not path: continue`. *)
Skips(path) == ~TruthyStr(path)

(* The mutant of Catches: only HTTP errors are caught. *)
Catches_http(exc) == exc.kind = "HTTPError"

(* crawl_wiki: `except Exception` catches whatever get_page_content raises. *)
Catches(exc) == TRUE

(* The mutant of AppendResult: the entry is put in front. *)
AppendResult_front(results, entry) == <<entry>> \o results

(* crawl_wiki: results.append(entry). *)
AppendResult(results, entry) == Append(results, entry)

(* entry.get("content") or "" *)
ContentOrEmpty(entry) == IF TruthyText(entry.content) THEN entry.content[1] ELSE <<>>

(* search_keyword / search_route: whether the entry's content holds the keyword. *)
Matches(keyword, entry) == Contains(Lower(keyword), Lower(ContentOrEmpty(entry)))

(* The mutant of SearchMatch: the whole content is returned as the snippet. *)
SearchMatch_whole(entry) == [path |-> entry.path, snippet |-> ContentOrEmpty(entry)]

(* search_route: the match appended for a page. *)
SearchMatch(entry) == [path |-> entry.path, snippet |-> Snippet(ContentOrEmpty(entry))]

RECURSIVE SearchRouteScan_first(_, _, _, _)
(* The mutant of SearchRouteScan: the scan stops at the first match. *)
SearchRouteScan_first(keyword, pages, i, matches) ==
    IF i > Len(pages) \/ Len(matches) >= 1 THEN matches
    ELSE SearchRouteScan_first(keyword, pages, i + 1,
            IF Contains(Lower(keyword), Lower(IF pages[i].content # None THEN pages[i].content[1] ELSE <<>>))
            THEN Append(matches, [path |-> pages[i].path,
                                  snippet |-> SubSeq(pages[i].content[1], 1, Min(SnippetLen, Len(pages[i].content[1])))])
            ELSE matches)

RECURSIVE SearchRouteScan(_, _, _, _)
(* search_route: the loop over the crawled pages from position i on. *)
SearchRouteScan(keyword, pages, i, matches) ==
    IF i > Len(pages) THEN matches
    ELSE SearchRouteScan(keyword, pages, i + 1,
            IF Matches(keyword, pages[i]) THEN Append(matches, SearchMatch(pages[i])) ELSE matches)

RECURSIVE SearchKeywordScan(_, _, _, _)
(* search_keyword: the loop over the crawled pages from position i on. *)
SearchKeywordScan(keyword, pages, i, matches) ==
    IF i > Len(pages) THEN matches
    ELSE SearchKeywordScan(keyword, pages, i + 1,
            IF Matches(keyword, pages[i]) THEN Append(matches, pages[i]) ELSE matches)

(* What the operation that ran the crawl returns once the crawl has its results. *)
AfterCrawl(call, results) ==
    CASE call.op = "search_route" -> Reply(200, SearchRouteScan(call.args.q[1], results, 1, <<>>))
      [] call.op = "search_keyword" -> Ok(SearchKeywordScan(call.args.q[1], results, 1, <<>>))
      [] OTHER -> Ok(results)

(* The mutant of NextIndex: a page whose fetch failed is fetched once more. *)
NextIndex_retry(call, out) ==
    IF out.kind # "ok" /\ (call.results = <<>>
                            \/ call.results[Len(call.results)].path # call.pages[call.idx].path[1])
    THEN call.idx
    ELSE call.idx + 1

(* crawl_wiki: the position the for loop goes on with once a page's fetch *)
(* returned or raised: the next page, in both cases.                      *)
NextIndex(call, out) == call.idx + 1

RECURSIVE CrawlLoop(_, _, _, _)
(* crawl_wiki: the loop from position i on, up to the next content request or *)
(* to the return.                                                              *)
CrawlLoop(call, pages, i, results) ==
    IF i > Len(pages)
    THEN [call EXCEPT !.pc = "done", !.pages = pages, !.idx = i, !.results = results,
                      !.outcome = AfterCrawl(call, results)]
    ELSE IF Skips(pages[i].path)
    THEN CrawlLoop(call, pages, i + 1, results)
    ELSE IF GetPageContentRejects(pages[i].path, None)
    THEN IF Catches(InvalidArgument)
         THEN CrawlLoop(call, pages, i + 1,
                        AppendResult(results, ErrorEntry(pages[i].path[1], InvalidArgument)))
         ELSE [call EXCEPT !.pc = "done", !.pages = pages, !.idx = i, !.results = results,
                           !.outcome = InvalidArgument]
    ELSE [call EXCEPT !.pc = "page", !.pages = pages, !.idx = i, !.results = results,
                      !.sent = Append(@, GetPageContentRequest(call.args.wiki[1], pages[i].path, None))]

----------------------------------------------------------------------------
(* Invocations.                                                            *)

NoArgs ==
    [wiki |-> None, path |-> None, id |-> None, q |-> None, limit |-> None,
     content |-> None, comment |-> None, etag |-> None]

IdleCall ==
    [op |-> "idle", pc |-> "idle", args |-> NoArgs, sent |-> <<>>, pages |-> <<>>,
     idx |-> 0, results |-> <<>>, response |-> Response(ModeTransport, EmptyBody),
     received |-> <<>>, outcome |-> NoOutcome, dirty |-> FALSE]

Callers == DOMAIN calls

(* The request of call c that is in flight. *)
InFlight(c) == calls[c].sent[Len(calls[c].sent)]

(* An operation that starts with crawl_wiki's list_pages call. *)
StartCrawl(op, args) ==
    [IdleCall EXCEPT !.op = op, !.args = args, !.pc = "list",
                     !.sent = <<ListPagesRequest(args.wiki[1])>>]

(* An operation that returns before any request is sent. *)
Rejected(op, args, out) ==
    [IdleCall EXCEPT !.op = op, !.args = args, !.pc = "done", !.outcome = out]

(* crawl_wiki(wiki) is called. *)
CrawlWiki(c) ==
    /\ calls[c].pc = "idle"
    /\ calls' = [calls EXCEPT ![c] = StartCrawl("crawl_wiki", [NoArgs EXCEPT !.wiki = Some(WikiName)])]
    /\ UNCHANGED <<upstream, client, last>>

(* search_keyword(wiki, keyword) is called. *)
SearchKeyword(c) ==
    /\ calls[c].pc = "idle"
    /\ \E keyword \in Queries \cup {<<>>} :
          calls' = [calls EXCEPT ![c] =
                       StartCrawl("search_keyword", [NoArgs EXCEPT !.wiki = Some(WikiName), !.q = Some(keyword)])]
    /\ UNCHANGED <<upstream, client, last>>

(* app_server.py: GET /search?wiki=..&q=..[&limit=..]. *)
SearchRoute(c) ==
    /\ calls[c].pc = "idle"
    /\ \E wiki \in {None, Some(WikiName)}, q \in {None, Some(<<>>)} \cup {Some(k) : k \in Queries},
          limit \in {None, Some(1)} :
          LET args == [NoArgs EXCEPT !.wiki = wiki, !.q = q, !.limit = limit]
          IN calls' = [calls EXCEPT ![c] =
                          IF ~TruthyStr(wiki) \/ ~TruthyText(q)
                          THEN Rejected("search_route", args, Reply(400, <<>>))
                          ELSE StartCrawl("search_route", args)]
    /\ UNCHANGED <<upstream, client, last>>

(* An operation that sends one request and returns on its response. *)
StartRequest(op, args, req) ==
    [IdleCall EXCEPT !.op = op, !.args = args, !.pc = "wait", !.sent = <<req>>]

(* list_wikis() is called. *)
ListWikis(c) ==
    /\ calls[c].pc = "idle"
    /\ calls' = [calls EXCEPT ![c] = StartRequest("list_wikis", NoArgs, ListWikisRequest)]
    /\ UNCHANGED <<upstream, client, last>>

(* list_pages(wiki) is called. *)
ListPages(c) ==
    /\ calls[c].pc = "idle"
    /\ calls' = [calls EXCEPT ![c] =
                    StartRequest("list_pages", [NoArgs EXCEPT !.wiki = Some(WikiName)],
                                 ListPagesRequest(WikiName))]
    /\ UNCHANGED <<upstream, client, last>>

(* app.py: GET /pages?wiki=.. *)
PagesRoute(c) ==
    /\ calls[c].pc = "idle"
    /\ \E wiki \in {None, Some(WikiName)} :
          LET args == [NoArgs EXCEPT !.wiki = wiki]
          IN calls' = [calls EXCEPT ![c] =
                          IF ~TruthyStr(wiki) THEN Rejected("pages_route", args, Reply(400, <<>>))
                          ELSE StartRequest("pages_route", args, PagesRouteRequest(wiki[1]))]
    /\ UNCHANGED <<upstream, client, last>>

(* get_page_content(wiki, page_path=.., page_id=..) is called. *)
GetPageContent(c) ==
    /\ calls[c].pc = "idle"
    /\ \E page_path \in {None, Some(""), Some(PathName[1])}, page_id \in {None, Some(0), Some(1)} :
          LET args == [NoArgs EXCEPT !.wiki = Some(WikiName), !.path = page_path, !.id = page_id]
          IN calls' = [calls EXCEPT ![c] =
                          IF GetPageContentRejects(page_path, page_id)
                          THEN Rejected("get_page_content", args, InvalidArgument)
                          ELSE StartRequest("get_page_content", args,
                                            GetPageContentRequest(WikiName, page_path, page_id))]
    /\ UNCHANGED <<upstream, client, last>>

(* create_or_update_page(wiki, path, content, etag=..) is called. *)
CreateOrUpdatePage(c) ==
    /\ calls[c].pc = "idle"
    /\ \E content \in {<<"b", "a">>, <<"x", "A", "b">>},
          etag \in {None, Some(""), Some(ETagName[1]), Some(ETagName[2])} :
          LET args == [NoArgs EXCEPT !.wiki = Some(WikiName), !.path = Some(PathName[1]),
                                     !.content = Some(content), !.etag = etag]
          IN /\ calls' = [calls EXCEPT ![c] =
                          [StartRequest("create_or_update_page", args,
                                        CreateOrUpdateRequest(WikiName, PathName[1], content, None, etag))
                           EXCEPT !.pc = "put"]]
             /\ client' = [client EXCEPT !.headers = HeadersAfterUpsert(@, etag)]
    /\ UNCHANGED <<upstream, last>>

(* The texts a caller gives as the id parameter of GET /page. *)
IdTexts == {<<"1">>, <<"0">>, <<"1", "x">>}

(* app_server.py: GET /page?wiki=..&path=..&id=.. *)
GetPageRoute(c) ==
    /\ calls[c].pc = "idle"
    /\ \E wiki \in {None, Some(WikiName)}, page_path \in {None, Some(""), Some(PathName[1])},
          page_id \in {None, Some(<<>>)} \cup {Some(t) : t \in IdTexts} :
          LET args == [NoArgs EXCEPT !.wiki = wiki, !.path = page_path, !.id = page_id]
          IN calls' = [calls EXCEPT ![c] =
                          IF ~TruthyStr(wiki) \/ (~TruthyStr(page_path) /\ ~TruthyText(page_id))
                          THEN Rejected("get_page_route", args, Reply(400, <<>>))
                          ELSE IF TruthyStr(page_path)
                          THEN IF GetPageContentRejects(page_path, None)
                               THEN Rejected("get_page_route", args, InvalidArgument)
                               ELSE StartRequest("get_page_route", args,
                                                 GetPageContentRequest(wiki[1], page_path, None))
                          ELSE IF ParseInt(page_id[1]) = None
                          THEN Rejected("get_page_route", args, Reply(400, <<>>))
                          ELSE IF GetPageContentRejects(None, ParseInt(page_id[1]))
                          THEN Rejected("get_page_route", args, InvalidArgument)
                          ELSE StartRequest("get_page_route", args,
                                            GetPageContentRequest(wiki[1], None, ParseInt(page_id[1])))]
    /\ UNCHANGED <<upstream, client, last>>

(* app.py: GET /page?wiki=..&path=..&id=.. *)
PageGet(c) ==
    /\ calls[c].pc = "idle"
    /\ \E wiki \in {None, Some(WikiName)}, path \in {None, Some(""), Some(PathName[1])},
          page_id \in {None, Some(<<>>)} \cup {Some(t) : t \in IdTexts} :
          LET args == [NoArgs EXCEPT !.wiki = wiki, !.path = path, !.id = page_id]
          IN calls' = [calls EXCEPT ![c] =
                          IF ~TruthyStr(wiki) \/ (~TruthyStr(path) /\ ~TruthyText(page_id))
                          THEN Rejected("page_get", args, Reply(400, <<>>))
                          ELSE StartRequest("page_get", args, PageGetRequest(wiki[1], path, page_id))]
    /\ UNCHANGED <<upstream, client, last>>

(* app.py: POST /page with wiki, path and content. *)
PagePost(c) ==
    /\ calls[c].pc = "idle"
    /\ \E wiki \in {None, Some(WikiName)}, path \in {None, Some(PathName[1])},
          content \in {None, Some(<<>>), Some(<<"b", "a">>)} :
          LET args == [NoArgs EXCEPT !.wiki = wiki, !.path = path, !.content = content]
          IN calls' = [calls EXCEPT ![c] =
                          IF ~(TruthyStr(wiki) /\ TruthyStr(path) /\ TruthyText(content))
                          THEN Rejected("page_post", args, Reply(400, <<>>))
                          ELSE [StartRequest("page_post", args,
                                             PageUpsertRequest(wiki[1], path[1], content[1], "Created via API"))
                                EXCEPT !.pc = "put"]]
    /\ UNCHANGED <<upstream, client, last>>

(* app.py: PUT /page with wiki, path and content. *)
PagePut(c) ==
    /\ calls[c].pc = "idle"
    /\ \E wiki \in {None, Some(WikiName)}, path \in {None, Some(PathName[1])},
          content \in {None, Some(<<>>), Some(<<"b", "a">>)} :
          LET args == [NoArgs EXCEPT !.wiki = wiki, !.path = path, !.content = content]
          IN calls' = [calls EXCEPT ![c] =
                          IF ~(TruthyStr(wiki) /\ TruthyStr(path) /\ TruthyText(content))
                          THEN Rejected("page_put", args, Reply(400, <<>>))
                          ELSE [StartRequest("page_put", args,
                                             PageUpsertRequest(wiki[1], path[1], content[1], "Updated via API"))
                                EXCEPT !.pc = "put"]]
    /\ UNCHANGED <<upstream, client, last>>

(* The result of an upsert, from its response. *)
UpsertResultOf(op, resp) ==
    CASE op = "page_post" -> PagePostResult(resp)
      [] op = "page_put" -> PagePutResult(resp)
      [] OTHER -> CreateOrUpdateResult(resp)

(* The result of a one-request operation, from its response. *)
ResultOf(op, resp) ==
    CASE op = "list_wikis" -> ListWikisResult(resp)
      [] op = "list_pages" -> ListPagesResult(resp)
      [] op = "pages_route" -> PagesRouteResult(resp)
      [] op = "get_page_route" -> GetPageRouteResult(resp)
      [] op = "page_get" -> PageGetResult(resp)
      [] OTHER -> GetPageContentResult(resp)

(* The response to the request of a one-request read arrives. *)
DeliverResponse(c) ==
    /\ calls[c].pc = "wait"
    /\ LET resp == Transport(InFlight(c))
       IN calls' = [calls EXCEPT ![c] =
                       [calls[c] EXCEPT !.pc = "done", !.response = resp,
                                        !.received = Append(@, resp),
                                        !.outcome = ResultOf(calls[c].op, resp)]]
    /\ UNCHANGED <<upstream, client, last>>

(* The upstream serves the upsert and its response arrives. *)
DeliverPut(c) ==
    /\ calls[c].pc = "put"
    /\ LET resp == Transport(InFlight(c))
       IN calls' = [calls EXCEPT ![c] =
                       [calls[c] EXCEPT !.pc = "done", !.response = resp,
                                        !.received = Append(@, resp),
                                        !.outcome = UpsertResultOf(calls[c].op, resp)]]
    /\ upstream' = AfterPut(InFlight(c))
    /\ UNCHANGED <<client, last>>

(* The response to crawl_wiki's list_pages request arrives. *)
DeliverListing(c) ==
    /\ calls[c].pc = "list"
    /\ LET resp == Transport(InFlight(c))
           call == [calls[c] EXCEPT !.response = resp, !.received = Append(@, resp)]
           out == ListPagesResult(resp)
       IN calls' = [calls EXCEPT ![c] =
                       IF out.kind # "ok"
                       THEN [call EXCEPT !.pc = "done", !.outcome = out]
                       ELSE CrawlLoop(call, out.value, 1, CrawlResultsInit)]
    /\ UNCHANGED <<upstream, client, last>>

(* The response to one of crawl_wiki's get_page_content requests arrives. *)
DeliverPage(c) ==
    /\ calls[c].pc = "page"
    /\ LET resp == Transport(InFlight(c))
           call == [calls[c] EXCEPT !.response = resp, !.received = Append(@, resp)]
           out == GetPageContentResult(resp)
           entry == CrawlEntry(call.pages[call.idx].path[1], out)
       IN calls' = [calls EXCEPT ![c] =
                       IF out.kind # "ok" /\ ~Catches(out)
                       THEN [call EXCEPT !.pc = "done", !.outcome = out]
                       ELSE CrawlLoop(call, call.pages, NextIndex(call, out), AppendResult(call.results, entry))]
    /\ UNCHANGED <<upstream, client, last>>

(* The caller takes the outcome; `last` remembers the invocation, unless the *)
(* upstream changed while it ran.                                            *)
Return(c) ==
    /\ calls[c].pc = "done"
    /\ calls' = [calls EXCEPT ![c] = IdleCall]
    /\ last' = IF calls[c].dirty THEN None ELSE Some(calls[c])
    /\ UNCHANGED <<upstream, client>>

WikiRef == [id |-> "w1", name |-> WikiName]

(* The upstream states among which the upstream changes: one wiki, whose  *)
(* listed pages are served with a short content or not at all.            *)
ChangingUpstreams ==
    {[wikis |-> <<WikiRef>>, pages |-> l, listMode |-> m] :
        l \in {f \in Listings : \A k \in 1..Len(f) :
                    /\ f[k].path = Some(PathName[k])
                    /\ f[k].mode \in {ModeOk, ModeTransport}
                    /\ Len(f[k].content) < SnippetLen},
        m \in {ModeOk, ModeTransport}}

(* Whether upstream state v is u after one change: the listing's mode, one *)
(* page (its content or the way it is served), a page added or removed.     *)
OneEdit(u, v) ==
    \/ u.pages = v.pages /\ u.listMode # v.listMode
    \/ /\ u.listMode = v.listMode
       /\ Len(u.pages) = Len(v.pages)
       /\ Cardinality({k \in 1..Len(u.pages) : u.pages[k] # v.pages[k]}) = 1
    \/ /\ u.listMode = v.listMode
       /\ Len(v.pages) = Len(u.pages) + 1
       /\ SubSeq(v.pages, 1, Len(u.pages)) = u.pages
    \/ /\ u.listMode = v.listMode
       /\ Len(u.pages) = Len(v.pages) + 1
       /\ SubSeq(u.pages, 1, Len(v.pages)) = v.pages

(* The wiki is edited, or the network changes, while calls may be running. *)
UpstreamChange ==
    /\ \E u \in ChangingUpstreams : OneEdit(upstream, u) /\ upstream' = u
    /\ calls' = [c \in Callers |-> IF calls[c].pc = "idle" THEN calls[c] ELSE [calls[c] EXCEPT !.dirty = TRUE]]
    /\ last' = None
    /\ UNCHANGED client

----------------------------------------------------------------------------
(* The upstream states the model starts from: a project without a wiki, or *)
(* one wiki with up to MaxPages listed pages.                              *)

Upstreams ==
    {[wikis |-> <<>>, pages |-> <<>>, listMode |-> m] : m \in ListModes}
    \cup {[wikis |-> <<WikiRef>>, pages |-> l, listMode |-> m] : l \in Listings, m \in ListModes}

Init ==
    /\ upstream \in Upstreams
    /\ client = NewClient
    /\ calls = [c \in {1} |-> IdleCall]
    /\ last = None

Next ==
    \/ \E c \in Callers : CrawlWiki(c)
    \/ \E c \in Callers : SearchKeyword(c)
    \/ \E c \in Callers : SearchRoute(c)
    \/ \E c \in Callers : DeliverListing(c)
    \/ \E c \in Callers : DeliverPage(c)
    \/ \E c \in Callers : ListWikis(c)
    \/ \E c \in Callers : ListPages(c)
    \/ \E c \in Callers : PagesRoute(c)
    \/ \E c \in Callers : GetPageContent(c)
    \/ \E c \in Callers : CreateOrUpdatePage(c)
    \/ \E c \in Callers : DeliverResponse(c)
    \/ \E c \in Callers : DeliverPut(c)
    \/ \E c \in Callers : PagePost(c)
    \/ \E c \in Callers : PagePut(c)
    \/ \E c \in Callers : GetPageRoute(c)
    \/ \E c \in Callers : PageGet(c)

Spec == Init /\ [][Next]_vars

(* Repeated searches by one caller over an upstream that may change. *)
InitRepeat ==
    /\ upstream \in ChangingUpstreams
    /\ client = NewClient
    /\ calls = [c \in {1} |-> IdleCall]
    /\ last = None

NextRepeat ==
    \/ \E c \in Callers : SearchKeyword(c)
    \/ \E c \in Callers : SearchRoute(c)
    \/ \E c \in Callers : DeliverListing(c)
    \/ \E c \in Callers : DeliverPage(c)
    \/ \E c \in Callers : Return(c)
    \/ UpstreamChange

SpecRepeat == InitRepeat /\ [][NextRepeat]_vars

(* Two callers use one client instance at the same time; their requests are *)
(* served in any order.                                                     *)
ConcurrentCallers == {1, 2}

InitConcurrent ==
    /\ upstream \in ChangingUpstreams
    /\ client = NewClient
    /\ calls = [c \in ConcurrentCallers |-> IdleCall]
    /\ last = None

NextConcurrent ==
    \/ \E c \in Callers : CrawlWiki(c)
    \/ \E c \in Callers : SearchKeyword(c)
    \/ \E c \in Callers : SearchRoute(c)
    \/ \E c \in Callers : DeliverListing(c)
    \/ \E c \in Callers : DeliverPage(c)
    \/ \E c \in Callers : ListWikis(c)
    \/ \E c \in Callers : ListPages(c)
    \/ \E c \in Callers : GetPageContent(c)
    \/ \E c \in Callers : CreateOrUpdatePage(c)
    \/ \E c \in Callers : DeliverResponse(c)
    \/ \E c \in Callers : DeliverPut(c)

SpecConcurrent == InitConcurrent /\ [][NextConcurrent]_vars

----------------------------------------------------------------------------
(* Vocabulary of the properties.                                           *)

Done(c) == calls[c].pc = "done"

Returned(c) == Done(c) /\ calls[c].outcome.kind \in {"ok", "reply"}

CrawlOps == {"crawl_wiki", "search_keyword", "search_route"}

HasPath(page) == page.path # None /\ page.path[1] # ""

(* What list_pages returns in the current upstream state, when it returns. *)
Listed ==
    IF upstream.wikis # <<>> /\ upstream.listMode = ModeOk THEN PageRefs(upstream.pages) ELSE <<>>

(* Whether the list_pages request succeeds in the current upstream state. *)
ListingSucceeds ==
    upstream.wikis # <<>> /\ upstream.listMode.net /\ upstream.listMode.status = 200 /\ upstream.listMode.json

(* The stored pages crawl has to fetch, in listing order. *)
ToFetch == IF Listed = <<>> THEN <<>> ELSE SelectSeq(upstream.pages, HasPath)

(* Whether fetching the stored page's content fails. *)
FetchFails(page) == ~page.mode.net \/ page.mode.status # 200 \/ ~page.mode.json

(* The text in which a stored page is searched. *)
Searched(page) == IF FetchFails(page) \/ ~page.mode.key THEN <<>> ELSE page.content

(* Case-insensitive containment, character by character. *)
SameLetter(a, b) == LowerChar(a) = LowerChar(b)

Holds(q, text) ==
    \E i \in 0..(Len(text) - Len(q)) : \A j \in 1..Len(q) : SameLetter(q[j], text[i + j])

----------------------------------------------------------------------------
(* C1: crawl returns one entry per listed page that has a non-empty path,  *)
(* and the i-th entry's path is the path of the i-th such page of the      *)
(* list_pages result.                                                      *)
C1_CrawlOnePerPathInOrder ==
    \A c \in Callers :
        (calls[c].op = "crawl_wiki" /\ Returned(c)) =>
            LET out == calls[c].outcome.value
                want == SelectSeq(Listed, HasPath)
            IN /\ Len(out) = Len(want)
               /\ \A i \in 1..Len(want) : out[i].path = want[i].path[1]

C1_Witness ==
    \E c \in Callers :
        /\ calls[c].op = "crawl_wiki" /\ Returned(c)
        /\ Len(Listed) = 2
        /\ Len(calls[c].outcome.value) = 2
        /\ calls[c].outcome.value[1].path # calls[c].outcome.value[2].path

(* C2: when the content fetch of a page fails, whatever the failure, its   *)
(* entry has content none and a non-empty error, every page listed after   *)
(* it is still requested and gets its entry, and the crawl, or the search  *)
(* built on it, still returns.                                             *)
C2_PageFailureIsolated ==
    \A c \in Callers :
        (calls[c].op \in CrawlOps /\ Done(c) /\ Len(calls[c].sent) > 0 /\ ListingSucceeds) =>
            /\ Returned(c)
            /\ Len(calls[c].results) = Len(ToFetch)
            /\ Len(calls[c].sent) = 1 + Len(ToFetch)
            /\ \A i \in 1..Len(ToFetch) :
                  /\ calls[c].sent[i + 1].query.path = ToFetch[i].path
                  /\ calls[c].results[i].path = ToFetch[i].path[1]
                  /\ FetchFails(ToFetch[i]) =>
                        /\ calls[c].results[i].content = None
                        /\ calls[c].results[i].error # None
                        /\ calls[c].results[i].error[1] # ""

C2_Witness ==
    \E c \in Callers :
        /\ calls[c].op \in CrawlOps /\ Returned(c)
        /\ Len(ToFetch) = 2
        /\ Len(calls[c].results) = 2
        /\ FetchFails(ToFetch[1])
        /\ calls[c].results[1].error # None
        /\ calls[c].results[2].content # None

(* C3 as stated: every page list_pages returned appears exactly once in    *)
(* crawl's output, with a content or with an error.                        *)
C3_EveryListedPageOnce ==
    \A c \in Callers :
        (calls[c].op = "crawl_wiki" /\ Returned(c)) =>
            LET out == calls[c].outcome.value
            IN \A k \in 1..Len(Listed) :
                  /\ Cardinality({i \in 1..Len(out) : Some(out[i].path) = Listed[k].path}) = 1
                  /\ \A i \in 1..Len(out) :
                        Some(out[i].path) = Listed[k].path =>
                            (out[i].content # None \/ out[i].error # None)

(* C3, amended: every listed page that has a non-empty path appears        *)
(* exactly once in crawl's output, with an error exactly when its fetch    *)
(* failed and else with the content the upstream served (none when the     *)
(* response holds no content); listed entries without a path, or with an   *)
(* empty one, are skipped, and the output holds nothing else.              *)
C3_EveryPageWithPathOnce ==
    \A c \in Callers :
        (calls[c].op = "crawl_wiki" /\ Returned(c)) =>
            LET out == calls[c].outcome.value
            IN /\ \A k \in 1..Len(Listed) :
                     LET mine == {i \in 1..Len(out) : Some(out[i].path) = Listed[k].path}
                         page == upstream.pages[k]
                     IN IF HasPath(Listed[k])
                        THEN /\ Cardinality(mine) = 1
                             /\ \A i \in mine :
                                   /\ (out[i].error # None) <=> FetchFails(page)
                                   /\ out[i].error # None => out[i].content = None
                                   /\ out[i].error = None =>
                                         out[i].content = IF page.mode.key THEN Some(page.content) ELSE None
                        ELSE mine = {}
               /\ \A i \in 1..Len(out) : \E k \in 1..Len(Listed) :
                     HasPath(Listed[k]) /\ Some(out[i].path) = Listed[k].path

C3_Witness ==
    \E c \in Callers :
        /\ calls[c].op = "crawl_wiki" /\ Returned(c)
        /\ Len(Listed) = 2
        /\ ~HasPath(Listed[1])
        /\ Len(calls[c].outcome.value) = 1
        /\ calls[c].outcome.value[1].content = None
        /\ calls[c].outcome.value[1].error = None

(* C4 as stated: search returns at most `limit` matches, 10 when no limit  *)
(* is given.                                                               *)
C4_AtMostLimit ==
    \A c \in Callers :
        (calls[c].op = "search_route" /\ Returned(c) /\ calls[c].outcome.status = 200) =>
            Len(calls[c].outcome.value) <=
                (IF calls[c].args.limit = None THEN 10 ELSE calls[c].args.limit[1])

(* C4, amended: search returns every matching page, in listing order,      *)
(* whatever limit the caller supplies: the limit is not read, there is no  *)
(* default, no clamp and no short-circuit.                                 *)
C4_AllMatchesInOrder ==
    \A c \in Callers :
        (calls[c].op = "search_route" /\ Returned(c) /\ calls[c].outcome.status = 200) =>
            LET out == calls[c].outcome.value
                Hit(page) == Holds(calls[c].args.q[1], Searched(page))
                want == SelectSeq(ToFetch, Hit)
            IN /\ Len(out) = Len(want)
               /\ \A i \in 1..Len(want) : out[i].path = want[i].path[1]

C4_Witness ==
    \E c \in Callers :
        /\ calls[c].op = "search_route" /\ Returned(c)
        /\ calls[c].args.limit = Some(1)
        /\ Len(calls[c].outcome.value) = 2
        /\ calls[c].outcome.value[1].path = PathName[1]

C6_SearchIdempotent ==
    /\ client = NewClient
    /\ \A c \in Callers :
          (Done(c) /\ ~calls[c].dirty /\ last # None) =>
              ((last[1].op = calls[c].op /\ last[1].args = calls[c].args) =>
                  last[1].outcome = calls[c].outcome)

C6_Witness ==
    \E c \in Callers :
        /\ Returned(c) /\ ~calls[c].dirty /\ last # None
        /\ calls[c].op = "search_route"
        /\ last[1].op = calls[c].op /\ last[1].args = calls[c].args
        /\ Len(calls[c].outcome.value) = 2

(* C7 as stated: a get_page_content call that supplies both a path and an  *)
(* id, or neither, fails with the selector error and sends no request,     *)
(* whatever the values supplied.                                           *)
C7_BothOrNeitherRejected ==
    \A c \in Callers :
        calls[c].op = "get_page_content" =>
            LET both == calls[c].args.path # None /\ calls[c].args.id # None
                neither == calls[c].args.path = None /\ calls[c].args.id = None
            IN (both \/ neither) =>
                  /\ calls[c].sent = <<>>
                  /\ Done(c) => calls[c].outcome = InvalidArgument

(* A call with neither selector is rejected before any request. *)
C7_Witness ==
    \E c \in Callers :
        /\ calls[c].op = "get_page_content" /\ Done(c)
        /\ calls[c].args.path = None /\ calls[c].args.id = None
        /\ calls[c].sent = <<>>

IsListRequest(req) == req.method = "GET" /\ req.resource = "pages" /\ req.query.path = None

(* C8 as stated: every list-pages request sent upstream, crawl's and       *)
(* search's included, asks for full recursion.                             *)
C8_ListRequestsRecurse ==
    \A c \in Callers : \A i \in 1..Len(calls[c].sent) :
        IsListRequest(calls[c].sent[i]) => calls[c].sent[i].query.recursionLevel = Some("full")

(* The /pages route of app.py does ask for full recursion. *)
C8_Witness ==
    \E c \in Callers :
        /\ calls[c].op = "pages_route" /\ Len(calls[c].sent) = 1
        /\ calls[c].sent[1].query.recursionLevel = Some("full")

ClientOps == {"list_wikis", "list_pages", "get_page_content", "create_or_update_page"}

Success(status) == status >= 200 /\ status <= 299

ListAborted == upstream.wikis # <<>> /\ ~upstream.listMode.net

PageAborted == ListingSucceeds /\ \E i \in 1..Len(ToFetch) : ~ToFetch[i].mode.net

(* C10 as stated: a crawl or search one of whose transport calls is        *)
(* aborted surfaces the transport error and returns no result sequence.    *)
C10_AbortSurfaces ==
    \A c \in Callers :
        (calls[c].op \in CrawlOps /\ Done(c) /\ calls[c].sent # <<>> /\ (ListAborted \/ PageAborted)) =>
            calls[c].outcome = TransportError

(* C10, amended: an aborted list_pages call surfaces the transport error   *)
(* and no result sequence; an aborted content fetch is caught: the crawl   *)
(* or search returns its result sequence, in which that page's entry has   *)
(* content none and the error's text, and the other pages are fetched.     *)
C10_AbortOfListSurfacesOfPageIsCaught ==
    \A c \in Callers :
        (calls[c].op \in CrawlOps /\ Done(c) /\ calls[c].sent # <<>>) =>
            /\ ListAborted =>
                  /\ calls[c].outcome = TransportError
                  /\ Len(calls[c].sent) = 1
                  /\ calls[c].results = <<>>
            /\ PageAborted =>
                  /\ Returned(c)
                  /\ Len(calls[c].results) = Len(ToFetch)
                  /\ \A i \in 1..Len(ToFetch) :
                        IF ToFetch[i].mode.net
                        THEN calls[c].results[i].path = ToFetch[i].path[1]
                        ELSE calls[c].results[i] =
                                [path |-> ToFetch[i].path[1], content |-> None,
                                 error |-> Some(TransportError.text)]

C10_Witness ==
    \E c \in Callers :
        /\ calls[c].op = "crawl_wiki" /\ Returned(c) /\ PageAborted
        /\ Len(calls[c].outcome.value) = 2
        /\ calls[c].outcome.value[1].error = Some("Connection aborted")
        /\ calls[c].outcome.value[2].content # None

----------------------------------------------------------------------------
(* Upserts.                                                                *)

Upserts(c) == calls[c].op = "create_or_update_page"

(* Whether the upstream applied the upsert of call c. *)
Applied(c) == Done(c) /\ calls[c].response.net /\ calls[c].response.status \in {200, 201}

(* The content stored under `path`, if a page is stored there. *)
StoredContent(path) ==
    IF PagesAt(path) = {} THEN None ELSE Some(upstream.pages[FirstOf(PagesAt(path))].content)

(* The request of an upsert carries its etag as If-Match, and none when the *)
(* etag is omitted.                                                         *)
EtagIsIfMatch ==
    \A c \in Callers :
        (Upserts(c) /\ calls[c].sent # <<>>) =>
            /\ TruthyStr(calls[c].args.etag) => calls[c].sent[1].headers.IfMatch = calls[c].args.etag
            /\ calls[c].args.etag = None => calls[c].sent[1].headers.IfMatch = None

(* Of two upserts of one page with the same etag, at most one is applied; an *)
(* upsert without etag is never refused for the page's version.              *)
AtMostOneConditional ==
    \A c, d \in Callers :
        (Upserts(c) /\ Done(c)) =>
            /\ (/\ c # d /\ Upserts(d) /\ Done(d)
                /\ calls[c].args.path = calls[d].args.path
                /\ TruthyStr(calls[c].args.etag)
                /\ calls[c].args.etag = calls[d].args.etag) => ~(Applied(c) /\ Applied(d))
            /\ calls[c].args.etag = None => calls[c].response.status # ModePrecondition.status

(* An upsert without etag that the upstream serves with success overwrites *)
(* what is stored, whoever wrote it.                                       *)
LastWriterWins ==
    \A c \in Callers :
        (/\ Upserts(c) /\ calls[c].pc = "put" /\ calls'[c].pc = "done"
         /\ calls[c].args.etag = None
         /\ calls'[c].response.net /\ calls'[c].response.status \in {200, 201}) =>
            StoredContent(calls[c].args.path[1])' = calls[c].args.content

(* C11: an upsert with an etag sends it as If-Match, and of two upserts of  *)
(* one page with the same etag at most one is applied; an upsert without    *)
(* etag sends no If-Match, is never refused for the version, and when       *)
(* served its content replaces what the earlier writer stored.              *)
C11_EtagMakesUpsertConditional ==
    [](EtagIsIfMatch /\ AtMostOneConditional) /\ [][LastWriterWins]_vars

(* Two writers with the etag of the same version and different contents: *)
(* the first is applied, the second is refused with 412.                 *)
C11_Witness ==
    /\ Callers = ConcurrentCallers
    /\ \A c \in Callers : Upserts(c) /\ Done(c) /\ calls[c].args.etag = Some(ETagName[1])
    /\ calls[1].args.content # calls[2].args.content
    /\ Applied(1)
    /\ calls[2].outcome = HTTPError(ModePrecondition.status)
    /\ StoredContent(PathName[1]) = calls[1].args.content

(* Whether the page the upsert of call c wrote was stored before the call: *)
(* the upstream answers 201 when it creates the page and 200 when the page *)
(* was there.                                                              *)
ExistedBefore(c) == calls[c].response.status = 200

RouteUpserts == {"page_post", "page_put"}

(* C12: the caller of an applied upsert is told "created" (201) exactly    *)
(* when the page did not exist before, and "updated" (200) exactly when it *)
(* did.                                                                    *)
C12_ToldCreatedOrUpdated ==
    \A c \in Callers :
        (calls[c].op \in RouteUpserts /\ Applied(c)) =>
            /\ calls[c].outcome = Reply(201, "Page created") <=> ~ExistedBefore(c)
            /\ calls[c].outcome = Reply(200, "Page updated") <=> ExistedBefore(c)

(* POST /page for a page that exists: the upstream answers 200, the caller *)
(* is told "Page created".                                                  *)
C12_Witness ==
    \E c \in Callers :
        /\ calls[c].op = "page_post" /\ Applied(c)
        /\ ExistedBefore(c)
        /\ calls[c].outcome = Reply(201, "Page created")

----------------------------------------------------------------------------
(* Concurrent use of one client instance.                                  *)

(* The instance is as __init__ left it. *)
ClientAsConstructed == client = NewClient

(* Every request of the client's operations carries the instance's base URL *)
(* and credential, and If-Match only when it is the upsert of a call that   *)
(* gave that etag.                                                          *)
RequestsCarryOwnHeaders ==
    \A c \in Callers : \A i \in 1..Len(calls[c].sent) :
        LET req == calls[c].sent[i]
        IN (calls[c].op \in ClientOps \cup CrawlOps) =>
              /\ req.base = NewClient.base_url
              /\ req.headers.Authorization = NewClient.headers.Authorization
              /\ req.headers.IfMatch # None => (Upserts(c) /\ req.headers.IfMatch = calls[c].args.etag)

(* The results of a crawl are, in order, the entries made of the responses *)
(* to its own content requests.                                            *)
ResultsAreOwn ==
    \A c \in Callers :
        calls[c].op \in CrawlOps =>
            /\ calls[c].results # <<>> => Len(calls[c].results) < Len(calls[c].received)
            /\ \A i \in 1..Len(calls[c].results) :
                  calls[c].results[i] =
                      CrawlEntry(calls[c].sent[i + 1].query.path[1],
                                 GetPageContentResult(calls[c].received[i + 1]))

(* C13: whatever the interleaving of the calls on one client instance, the *)
(* credential, headers and base URL stay as constructed, every request     *)
(* carries them and no other call's If-Match, and the results of a crawl   *)
(* or search are made of the responses to its own requests only.           *)
C13_CallsShareNothing ==
    ClientAsConstructed /\ RequestsCarryOwnHeaders /\ ResultsAreOwn

(* A crawl returned a page's content as it was served to it, while the    *)
(* other caller's conditional upsert has replaced that content since.     *)
C13_Witness ==
    /\ Callers = ConcurrentCallers
    /\ calls[1].op = "crawl_wiki" /\ Returned(1)
    /\ Len(calls[1].results) = 2
    /\ calls[1].results[1].path = PathName[1]
    /\ calls[1].results[1].content # None
    /\ calls[1].results[1].content # StoredContent(PathName[1])
    /\ Upserts(2) /\ Applied(2) /\ TruthyStr(calls[2].args.etag)

----------------------------------------------------------------------------
(* Local validation in the routes.                                         *)

PageRoutes == {"get_page_route", "page_get"}

(* Whether the parameters of the page-fetch call c are invalid: no wiki,  *)
(* neither path nor id, both of them, or an id that is not an integer.    *)
InvalidPageFetch(c) ==
    LET a == calls[c].args
    IN \/ ~TruthyStr(a.wiki)
       \/ ~TruthyStr(a.path) /\ ~TruthyText(a.id)
       \/ TruthyStr(a.path) /\ TruthyText(a.id)
       \/ ~TruthyStr(a.path) /\ TruthyText(a.id) /\ ParseInt(a.id[1]) = None

InvalidSearch(c) == ~TruthyStr(calls[c].args.wiki) \/ ~TruthyText(calls[c].args.q)

(* C14: a page-fetch request without wiki, with neither path nor id, with  *)
(* both, or with an id that is not an integer, and a search request        *)
(* without wiki or query, is answered 400 and sends no upstream request.   *)
C14_InvalidRejectedLocally ==
    \A c \in Callers :
        (\/ calls[c].op \in PageRoutes /\ InvalidPageFetch(c)
         \/ calls[c].op = "search_route" /\ InvalidSearch(c)) =>
            /\ calls[c].sent = <<>>
            /\ calls[c].outcome = Reply(400, <<>>)

(* GET /page of app_server.py with both a path and an id: the page is *)
(* fetched by path and the caller gets 200.                           *)
C14_Witness ==
    \E c \in Callers :
        /\ calls[c].op = "get_page_route" /\ Done(c)
        /\ calls[c].args.path = Some(PathName[1]) /\ calls[c].args.id = Some(<<"1">>)
        /\ Len(calls[c].sent) = 1
        /\ calls[c].sent[1].query.path = Some(PathName[1])
        /\ calls[c].outcome.kind = "reply" /\ calls[c].outcome.status = 200

----------------------------------------------------------------------------
(* list_wikis.                                                             *)

(* The response to call c is a success with a JSON body. *)
Decodable(c) ==
    calls[c].response.net /\ Success(calls[c].response.status) /\ calls[c].response.json

(* C15: list_wikis returns the empty sequence, and raises nothing, when the *)
(* response is a success with a JSON body that has no "value" key or an     *)
(* empty "value" collection.                                                *)
C15_NoWikisIsEmptySequence ==
    \A c \in Callers :
        (/\ calls[c].op = "list_wikis" /\ Done(c) /\ Decodable(c)
         /\ calls[c].response.body.value \in {None, Some(<<>>)}) =>
            calls[c].outcome = Ok(<<>>)

(* The upstream lists a wiki, but the body of its answer has no "value" key. *)
C15_Witness ==
    \E c \in Callers :
        /\ calls[c].op = "list_wikis" /\ Done(c) /\ Decodable(c)
        /\ upstream.wikis # <<>>
        /\ calls[c].response.body.value = None
        /\ calls[c].outcome = Ok(<<>>)

----------------------------------------------------------------------------
(* The requests of one crawl.                                              *)

(* The requests call c still waits for. *)
Outstanding(c) == Len(calls[c].sent) - Len(calls[c].received)

(* The listing call c received, once its list_pages request succeeded. *)
ListingOf(c) ==
    IF calls[c].received # <<>> /\ ListPagesResult(calls[c].received[1]).kind = "ok"
    THEN ListPagesResult(calls[c].received[1]).value
    ELSE <<>>

(* The requests of a complete crawl over the listing call c received: the *)
(* list_pages request, then one content request by path for each listed   *)
(* page with a non-empty path, in listing order.                          *)
CrawlPlan(c) ==
    LET wiki == calls[c].args.wiki[1]
        paged == SelectSeq(ListingOf(c), HasPath)
    IN <<ListPagesRequest(wiki)>>
       \o [i \in 1..Len(paged) |-> GetPageContentRequest(wiki, paged[i].path, None)]

(* C16: a crawl sends one list_pages request, then one content request by  *)
(* path for each listed page with a non-empty path, in listing order, the  *)
(* next only when the previous one has been answered or has failed: what   *)
(* it has sent is at every moment the beginning of that plan, at most one  *)
(* request is unanswered, and at the return the whole plan has been sent,  *)
(* no request twice and none for a page without a path.                    *)
C16_CrawlRequestsInSequence ==
    \A c \in Callers :
        (calls[c].op \in CrawlOps /\ calls[c].sent # <<>>) =>
            /\ Outstanding(c) = IF Done(c) THEN 0 ELSE 1
            /\ Len(calls[c].sent) <= Len(CrawlPlan(c))
            /\ calls[c].sent = SubSeq(CrawlPlan(c), 1, Len(calls[c].sent))
            /\ Done(c) => calls[c].sent = CrawlPlan(c)

(* A crawl over a listing with a page without a path and a page whose *)
(* fetch failed: two requests, the failed one sent once.              *)
C16_Witness ==
    \E c \in Callers :
        /\ calls[c].op = "crawl_wiki" /\ Returned(c)
        /\ Len(ListingOf(c)) = 2
        /\ ~HasPath(ListingOf(c)[1])
        /\ Len(calls[c].sent) = 2
        /\ Len(calls[c].received) = 2
        /\ calls[c].sent[2].query.path = ListingOf(c)[2].path
        /\ GetPageContentResult(calls[c].received[2]).kind = "HTTPError"

----------------------------------------------------------------------------
(* A failed listing.                                                       *)

(* The exchange failed: it did not complete, its status is not a success, *)
(* or its body is not JSON.                                               *)
Failed(resp) == ~resp.net \/ ~Success(resp.status) \/ ~resp.json

(* The error of a failed exchange. *)
FailureOf(resp) ==
    IF ~resp.net THEN TransportError
    ELSE IF ~Success(resp.status) THEN HTTPError(resp.status)
    ELSE DecodeError

(* C17: when the list_pages request of a crawl or search fails (transport, *)
(* error status or undecodable body), the call raises that error, returns  *)
(* no result sequence and has sent no content request.                     *)
C17_ListFailureFailsCrawl ==
    \A c \in Callers :
        (/\ calls[c].op \in CrawlOps /\ calls[c].received # <<>>
         /\ Failed(calls[c].received[1])) =>
            /\ Done(c)
            /\ calls[c].outcome = FailureOf(calls[c].received[1])
            /\ ~Returned(c)
            /\ calls[c].results = <<>>
            /\ Len(calls[c].sent) = 1

(* A search over a wiki with pages whose listing is answered 500. *)
C17_Witness ==
    \E c \in Callers :
        /\ calls[c].op = "search_route" /\ Done(c)
        /\ Len(upstream.pages) = MaxPages
        /\ \A k \in 1..Len(upstream.pages) : HasPath(upstream.pages[k])
        /\ calls[c].received # <<>>
        /\ calls[c].received[1].status = ModeServerError.status
        /\ calls[c].outcome = HTTPError(ModeServerError.status)
        /\ Len(calls[c].sent) = 1


====
